---- MODULE Spec2Model ----
(***************************************************************************)
(* Model of the options data service (src/services/options/               *)
(* options_service.py) and of the options-chain endpoint of the ticker    *)
(* service (src/ticker_service.py).                                       *)
(*                                                                         *)
(* Conventions                                                             *)
(*   - a Python str is a sequence of one-character strings;                *)
(*   - a Python Optional is a sequence of length 0 (None) or 1;            *)
(*   - a Python float is a record [t, v]: t = "f" with v the value in      *)
(*     thousandths, or t = "nan" / "inf"; provider cells may also be       *)
(*     None (t = "none"), a str (t = "str") or a bool (t = "bool");        *)
(*   - the clock `now` counts seconds of local time from a Monday 00:00.   *)
(***************************************************************************)
EXTENDS Integers, Sequences, FiniteSets, TLC

VARIABLES
    cache,      \* _cache: key -> CacheEntry                (options_service.py:92)
    now,        \* the system clock, seconds
    ticks,      \* number of clock advances so far
    c_op,       \* CacheSpec: the last cache operation and what it returned
    pc,         \* Spec: position of each request handler
    req,        \* Spec: the request each handler is serving
    resp,       \* Spec: the response each handler produced last
    running,    \* Spec: the handler the event loop is executing (0: none)
    options,    \* Spec: the provider's current expiration list per ticker
    nreq,       \* Spec: number of requests received so far
    served,     \* Spec: per normalised inputs, the last response that was stored
    rt,         \* RetrySpec: state of one get_ticker_with_retry call
    sh          \* ShapeSpec: one provider chain and the response shaped from it

vars == <<cache, now, ticks, c_op, pc, req, resp, running, options, nreq, served, rt, sh>>

\* --------------------------------------------------------------- bounds
MaxTicks == 2
MaxRequests == 2
MaxRetriesBound == 4

\* --------------------------------------------------------------- strings
LowerAlpha == <<"a","b","c","d","e","f","g","h","i","j","k","l","m",
                "n","o","p","q","r","s","t","u","v","w","x","y","z">>
UpperAlpha == <<"A","B","C","D","E","F","G","H","I","J","K","L","M",
                "N","O","P","Q","R","S","T","U","V","W","X","Y","Z">>

UpperChar(c) ==
    IF \E i \in 1..26 : LowerAlpha[i] = c
    THEN UpperAlpha[CHOOSE i \in 1..26 : LowerAlpha[i] = c]
    ELSE c

\* str.upper()
Upper(s) == [i \in 1..Len(s) |-> UpperChar(s[i])]

DigitChars == <<"0","1","2","3","4","5","6","7","8","9">>

RECURSIVE Digits(_)
\* str(n) of an int n >= 0
Digits(n) == IF n < 10 THEN <<DigitChars[n + 1]>>
             ELSE Digits(n \div 10) \o <<DigitChars[(n % 10) + 1]>>

\* the decimals of repr(float) for a value with m thousandths, 0 <= m < 1000
FracDigits(m) ==
    IF m = 0 THEN <<"0">>
    ELSE IF m % 100 = 0 THEN <<DigitChars[(m \div 100) + 1]>>
    ELSE IF m % 10 = 0 THEN <<DigitChars[(m \div 100) + 1], DigitChars[((m \div 10) % 10) + 1]>>
    ELSE <<DigitChars[(m \div 100) + 1], DigitChars[((m \div 10) % 10) + 1], DigitChars[(m % 10) + 1]>>

Abs(n) == IF n < 0 THEN 0 - n ELSE n

\* --------------------------------------------------------------- values
F(v)   == [t |-> "f", v |-> v, s |-> "", b |-> FALSE]
NaN    == [t |-> "nan", v |-> 0, s |-> "", b |-> FALSE]
Inf    == [t |-> "inf", v |-> 0, s |-> "", b |-> FALSE]
NoneV  == [t |-> "none", v |-> 0, s |-> "", b |-> FALSE]
S(s)   == [t |-> "str", v |-> 0, s |-> s, b |-> FALSE]
B(b)   == [t |-> "bool", v |-> 0, s |-> "", b |-> b]

\* format of an Optional[float] inside an f-string: "None" or repr(float)
FormatOpt(o) ==
    IF o = <<>> THEN <<"N","o","n","e">>
    ELSE IF o[1].t = "nan" THEN <<"n","a","n">>
    ELSE IF o[1].t = "inf" THEN <<"i","n","f">>
    ELSE (IF o[1].v < 0 THEN <<"-">> ELSE <<>>)
         \o Digits(Abs(o[1].v) \div 1000) \o <<".">> \o FracDigits(Abs(o[1].v) % 1000)

\* --------------------------------------------------------------- clock
\* datetime.now().weekday(): Monday = 0 ... Sunday = 6
Weekday(t) == (t \div 86400) % 7
\* datetime.now().hour
Hour(t) == (t % 86400) \div 3600

\* --------------------------------------------------------------- cache layer
CacheEntry(data, ttl_seconds, t) == [data |-> data, expires_at |-> t + ttl_seconds]

is_expired_evict_at_expiry(entry, t) == t >= entry.expires_at

is_expired(entry, t) == t > entry.expires_at

get_cache_ttl_closed_hours(t) ==
    IF Weekday(t) >= 5 THEN 86400
    ELSE IF 9 <= Hour(t) /\ Hour(t) <= 16 THEN 300
    ELSE 3600

get_cache_ttl(t) ==
    IF Weekday(t) >= 5 THEN 86400
    ELSE IF 9 <= Hour(t) /\ Hour(t) < 16 THEN 300
    ELSE 3600

Remove(c, key) == [k \in DOMAIN c \ {key} |-> c[k]]
Put(c, key, entry) == [k \in DOMAIN c \cup {key} |-> IF k = key THEN entry ELSE c[k]]

\* returns the value returned (None: <<>>) and the cache afterwards
get_from_cache(c, key, t) ==
    IF key \in DOMAIN c
    THEN IF ~is_expired(c[key], t)
         THEN [ret |-> <<c[key].data>>, cache |-> c]
         ELSE [ret |-> <<>>, cache |-> Remove(c, key)]
    ELSE [ret |-> <<>>, cache |-> c]

set_cache_keep_existing(c, key, data, ttl_seconds, t) ==
    IF key \in DOMAIN c THEN c
    ELSE Put(c, key, CacheEntry(data, IF ttl_seconds = <<>> THEN get_cache_ttl(t) ELSE ttl_seconds[1], t))

set_cache(c, key, data, ttl_seconds, t) ==
    Put(c, key, CacheEntry(data, IF ttl_seconds = <<>> THEN get_cache_ttl(t) ELSE ttl_seconds[1], t))

\* --------------------------------------------------------------- cache keys
expirations_cache_key(ticker) ==
    <<"e","x","p","i","r","a","t","i","o","n","s",":">> \o Upper(ticker)

chain_cache_key_case_sensitive(ticker, expiration, minStrike, maxStrike) ==
    <<"c","h","a","i","n",":">> \o ticker \o <<":">> \o expiration
        \o <<":">> \o FormatOpt(minStrike) \o <<":">> \o FormatOpt(maxStrike)

chain_cache_key(ticker, expiration, minStrike, maxStrike) ==
    <<"c","h","a","i","n",":">> \o Upper(ticker) \o <<":">> \o expiration
        \o <<":">> \o FormatOpt(minStrike) \o <<":">> \o FormatOpt(maxStrike)

\* --------------------------------------------------------------- idle values
\* what a specification leaves in the variables it does not use
NoOp == [op |-> "none", key |-> <<>>, ttl |-> <<>>, data |-> <<>>,
         entry |-> <<>>, ret |-> <<>>]

\* --------------------------------------------------------------- clock steps
StartTimes == { 0 * 86400 + 8 * 3600 + 3599,     \* Monday 08:59:59
                4 * 86400 + 15 * 3600 + 3599,    \* Friday 15:59:59
                6 * 86400 + 23 * 3600 + 3599 }   \* Sunday 23:59:59
TickSizes == {1, 300, 3600, 86400}

\* time passes
Advance(sizes) ==
    /\ ticks < MaxTicks
    /\ \E d \in sizes : now' = now + d
    /\ ticks' = ticks + 1

\* --------------------------------------------------------------- CacheSpec
\* the cache layer driven directly: get_from_cache, set_cache and the clock
CacheTickers == { <<"A","B">>, <<"X">> }
CacheKeySet == { expirations_cache_key(t) : t \in CacheTickers }
CachePayloads == { [ticker |-> t, cached |-> FALSE] : t \in CacheTickers }
CacheTtls == { <<>>, <<3600>> }

CacheInit ==
    /\ cache = <<>>
    /\ now \in StartTimes
    /\ ticks = 0
    /\ c_op = NoOp
    /\ pc = <<>> /\ req = <<>> /\ resp = <<>> /\ running = 0
    /\ options = <<>> /\ nreq = 0 /\ served = <<>>
    /\ rt = <<>> /\ sh = <<>>

\* the entry stored under key, as an Optional
EntryOf(c, key) == IF key \in DOMAIN c THEN <<c[key]>> ELSE <<>>

CacheGet(key) ==
    LET r == get_from_cache(cache, key, now) IN
    /\ cache' = r.cache
    /\ c_op' = [op |-> "get", key |-> key, ttl |-> <<>>, data |-> <<>>,
                entry |-> EntryOf(cache, key), ret |-> r.ret]
    /\ UNCHANGED <<now, ticks, pc, req, resp, running, options, nreq, served, rt, sh>>

CacheSet(key, data, ttl) ==
    /\ cache' = set_cache(cache, key, data, ttl, now)
    /\ c_op' = [op |-> "set", key |-> key, ttl |-> ttl, data |-> <<data>>,
                entry |-> EntryOf(cache, key), ret |-> <<>>]
    /\ UNCHANGED <<now, ticks, pc, req, resp, running, options, nreq, served, rt, sh>>

\* time passes; the cache layer has no background sweep
CacheTick ==
    /\ Advance(TickSizes)
    /\ c_op' = [NoOp EXCEPT !.op = "tick"]
    /\ UNCHANGED <<cache, pc, req, resp, running, options, nreq, served, rt, sh>>

CacheNext ==
    \/ \E k \in CacheKeySet : CacheGet(k)
    \/ \E k \in CacheKeySet, d \in CachePayloads, ttl \in CacheTtls : CacheSet(k, d, ttl)
    \/ CacheTick

CacheSpec == CacheInit /\ [][CacheNext]_vars

\* --------------------------------------------------------------- claims on the cache layer
\* C2 (as stated): for a stored entry, get(key) returns the payload exactly when
\* now < expiresAt; at any now at or past expiresAt it returns absent and the
\* entry is gone afterwards.
C2_GetServesStrictlyBeforeExpiry ==
    (c_op.op = "get" /\ c_op.entry # <<>>) =>
        LET e == c_op.entry[1] IN
        /\ (c_op.ret = <<e.data>>) <=> (now < e.expires_at)
        /\ (now >= e.expires_at) => (c_op.ret = <<>> /\ c_op.key \notin DOMAIN cache)

\* C2 (amended): for a stored entry, get(key) returns the payload exactly when
\* now <= expiresAt, leaving the entry in place; at any now strictly past
\* expiresAt it returns absent and the entry is gone afterwards.
C2_GetServesUntilExpiryInclusive ==
    (c_op.op = "get" /\ c_op.entry # <<>>) =>
        LET e == c_op.entry[1] IN
        /\ (c_op.ret = <<e.data>>) <=> (now <= e.expires_at)
        /\ (now <= e.expires_at) => EntryOf(cache, c_op.key) = <<e>>
        /\ (now > e.expires_at) => (c_op.ret = <<>> /\ c_op.key \notin DOMAIN cache)

\* a get at the very instant of expiry, which still returns the payload
C2_Witness ==
    /\ c_op.op = "get" /\ c_op.entry # <<>>
    /\ now = c_op.entry[1].expires_at
    /\ c_op.ret = <<c_op.entry[1].data>>

\* the TTL table of the claim, read at the store instant
C5_ClaimedTtl(t) ==
    IF Weekday(t) \in {5, 6} THEN 86400
    ELSE IF Hour(t) \in 9..15 THEN 300
    ELSE 3600

C9_EntryChangesOnlyBySetOrExpiredGet ==
    [][\A k \in CacheKeySet :
         IF c_op'.op = "set" /\ c_op'.key = k
         THEN EntryOf(cache', k) =
                <<[data |-> c_op'.data[1],
                   expires_at |-> now + (IF c_op'.ttl # <<>> THEN c_op'.ttl[1]
                                          ELSE get_cache_ttl(now))]>>
         ELSE IF c_op'.op = "get" /\ c_op'.key = k /\ k \in DOMAIN cache
                 /\ now >= cache[k].expires_at
         THEN /\ now > cache[k].expires_at => k \notin DOMAIN cache'
              /\ EntryOf(cache', k) \in {<<>>, EntryOf(cache, k)}
         ELSE EntryOf(cache', k) = EntryOf(cache, k)
    ]_vars

\* an expired entry has just been removed by a get while the entry of the
\* other key, itself past its expiry, is still in the cache
C9_Witness ==
    /\ c_op.op = "get" /\ c_op.entry # <<>> /\ c_op.ret = <<>>
    /\ c_op.key \notin DOMAIN cache
    /\ \E k \in DOMAIN cache : k # c_op.key /\ now > cache[k].expires_at

\* --------------------------------------------------------------- get_ticker_with_retry
DefaultMaxRetries == 3

\* the state of one call: position, loop variable, upstream attempts made,
\* the sleeps taken (milliseconds), and the outcome (a ticker, or an HTTPException)
RetryBegin(symbol, max_retries) ==
    [symbol |-> symbol, max_retries |-> max_retries, attempt |-> 0, pc |-> "loop",
     calls |-> 0, sleeps |-> <<>>, ticker |-> <<>>, err |-> <<>>]

\* one step of the loop; ok: whether yf.Ticker(symbol).info answers this time
get_ticker_with_retry_step(st, ok) ==
    IF st.pc = "sleep"
    THEN [st EXCEPT !.pc = "loop", !.attempt = @ + 1]
    ELSE IF st.attempt >= st.max_retries
    THEN [st EXCEPT !.pc = "returned"]
    ELSE IF ok
    THEN [st EXCEPT !.pc = "returned", !.calls = @ + 1, !.ticker = <<st.symbol>>]
    ELSE IF st.attempt = st.max_retries - 1
    THEN [st EXCEPT !.pc = "raised", !.calls = @ + 1,
                    !.err = <<[status_code |-> 404, symbol |-> st.symbol]>>]
    ELSE [st EXCEPT !.pc = "sleep", !.calls = @ + 1,
                    !.sleeps = Append(@, 500 * (st.attempt + 1))]

RECURSIVE RunRetry(_, _)
RunRetry(st, outcomes) ==
    IF st.pc \in {"returned", "raised"} THEN st
    ELSE IF st.pc = "sleep" THEN RunRetry(get_ticker_with_retry_step(st, TRUE), outcomes)
    ELSE IF outcomes = <<>> THEN RunRetry(get_ticker_with_retry_step(st, FALSE), outcomes)
    ELSE RunRetry(get_ticker_with_retry_step(st, Head(outcomes)), Tail(outcomes))

\* the whole call, given what the provider answers attempt by attempt
get_ticker_with_retry(symbol, max_retries, outcomes) ==
    RunRetry(RetryBegin(symbol, max_retries), outcomes)

\* --------------------------------------------------------------- RetrySpec
RetrySymbols == { <<"A","B">>, <<"X">>, <<"A","B",":","X">>, <<"Q","Q","Q">> }

RetryInit ==
    /\ rt \in { RetryBegin(s, m) : s \in RetrySymbols, m \in 0..MaxRetriesBound }
    /\ cache = <<>> /\ now = 0 /\ ticks = 0 /\ c_op = NoOp
    /\ pc = <<>> /\ req = <<>> /\ resp = <<>> /\ running = 0
    /\ options = <<>> /\ nreq = 0 /\ served = <<>> /\ sh = <<>>

RetryFrame == UNCHANGED <<cache, now, ticks, c_op, pc, req, resp, running, options, nreq, served, sh>>

\* an upstream attempt, answered or failing
RetryAttempt(ok) ==
    /\ rt.pc = "loop" /\ rt.attempt < rt.max_retries
    /\ rt' = get_ticker_with_retry_step(rt, ok)
    /\ RetryFrame

\* time.sleep returns and the loop goes on
RetrySleepDone ==
    /\ rt.pc = "sleep"
    /\ rt' = get_ticker_with_retry_step(rt, TRUE)
    /\ RetryFrame

\* range(max_retries) is exhausted and the function ends
RetryLoopEnds ==
    /\ rt.pc = "loop" /\ rt.attempt >= rt.max_retries
    /\ rt' = get_ticker_with_retry_step(rt, TRUE)
    /\ RetryFrame

RetryNext ==
    \/ \E ok \in BOOLEAN : RetryAttempt(ok)
    \/ RetrySleepDone
    \/ RetryLoopEnds

RetrySpec == RetryInit /\ [][RetryNext]_vars

\* the waits of the claim: 0.5 s x k after the k-th failed attempt
C4_WaitsAreLinear(st) == \A k \in 1..Len(st.sleeps) : st.sleeps[k] = 500 * k

\* C4: for every symbol and every maxRetries, fetchTicker ends after at most
\* maxRetries upstream attempts either with the ticker of the first attempt that
\* succeeds or, every attempt having failed, with the 404 failure naming the
\* symbol, never with neither; it waits 0.5 s x k after the k-th failed attempt
\* that is not the last and does not wait after the last.
C4_RetryContract ==
    /\ rt.calls <= rt.max_retries
    /\ C4_WaitsAreLinear(rt)
    /\ rt.pc \in {"returned", "raised"} =>
         \/ /\ rt.ticker = <<rt.symbol>> /\ rt.err = <<>>
            /\ rt.calls = Len(rt.sleeps) + 1
         \/ /\ rt.ticker = <<>> /\ rt.err = <<[status_code |-> 404, symbol |-> rt.symbol]>>
            /\ rt.calls = rt.max_retries
            /\ Len(rt.sleeps) = rt.max_retries - 1

\* the same contract for maxRetries >= 1, where the code keeps it
C4_RetryContractFromOneRetry == rt.max_retries >= 1 => C4_RetryContract

\* --------------------------------------------------------------- numeric coercion
I(n) == [t |-> "int", v |-> n, s |-> "", b |-> FALSE]

\* the outcome of an expression: a value, or an exception that leaves the block
Ok(v) == [raised |-> FALSE, v |-> v]
Raised == [raised |-> TRUE, v |-> NoneV]

\* np.isnan(value): raises TypeError on None and on str
IsNanRaises(x) == x.t \in {"none", "str"}
IsNan(x) == x.t = "nan"

\* float(value) of a value np.isnan accepted
ToFloat(x) ==
    IF x.t = "int" THEN F(x.v * 1000)
    ELSE IF x.t = "bool" THEN F(IF x.b THEN 1000 ELSE 0)
    ELSE x

\* int(value) of a finite value: truncation towards zero
ToInt(x) ==
    IF x.t = "bool" THEN I(IF x.b THEN 1 ELSE 0)
    ELSE IF x.t = "f" THEN I(IF x.v < 0 THEN 0 - ((0 - x.v) \div 1000) ELSE x.v \div 1000)
    ELSE x

safe_float(value, default) ==
    IF IsNanRaises(value) THEN default
    ELSE IF IsNan(value) THEN default
    ELSE ToFloat(value)

\* int(inf) raises OverflowError, which safe_int does not catch
safe_int(value, default) ==
    IF IsNanRaises(value) THEN Ok(default)
    ELSE IF IsNan(value) THEN Ok(default)
    ELSE IF value.t = "inf" THEN Raised
    ELSE Ok(ToInt(value))

\* float * 100
Times100(x) == IF x.t = "f" THEN F(x.v * 100) ELSE x

\* a < b on floats (b finite)
FloatLess(a, b) ==
    IF a.t = "nan" \/ b.t = "nan" THEN FALSE
    ELSE IF a.t = "inf" THEN FALSE
    ELSE IF b.t = "inf" THEN TRUE
    ELSE a.v < b.v

\* bool(value)
PyBool(x) ==
    IF x.t = "bool" THEN x.b
    ELSE IF x.t = "none" THEN FALSE
    ELSE IF x.t = "str" THEN x.s # ""
    ELSE IF x.t \in {"f", "int"} THEN x.v # 0
    ELSE TRUE

RECURSIVE Join(_)
Join(chars) == IF chars = <<>> THEN "" ELSE Head(chars) \o Join(Tail(chars))

\* str(value)
PyStr(x) ==
    IF x.t = "str" THEN x.s
    ELSE IF x.t = "none" THEN "None"
    ELSE IF x.t = "bool" THEN (IF x.b THEN "True" ELSE "False")
    ELSE IF x.t = "int" THEN ToString(x.v)
    ELSE Join(FormatOpt(<<x>>))

\* --------------------------------------------------------------- response shaper
ContractColumns == {"strike", "bid", "ask", "lastPrice", "volume", "openInterest",
                    "impliedVolatility", "inTheMoney", "contractSymbol"}

\* OptionContract(...) of one provider row that passed the strike filter;
\* row['x'] of a missing column raises KeyError
option_contract(row, strike) ==
    IF ~(ContractColumns \subseteq DOMAIN row) THEN Raised
    ELSE IF safe_int(row["volume"], I(0)).raised THEN Raised
    ELSE IF safe_int(row["openInterest"], I(0)).raised THEN Raised
    ELSE Ok([strike |-> strike,
             bid |-> safe_float(row["bid"], F(0)),
             ask |-> safe_float(row["ask"], F(0)),
             last |-> safe_float(row["lastPrice"], F(0)),
             volume |-> safe_int(row["volume"], I(0)).v,
             openInterest |-> safe_int(row["openInterest"], I(0)).v,
             impliedVolatility |-> Times100(safe_float(row["impliedVolatility"], F(0))),
             inTheMoney |-> PyBool(row["inTheMoney"]),
             contractSymbol |-> PyStr(row["contractSymbol"])])

\* the strike filter: TRUE when the row is skipped
strike_filtered_out(strike, minStrike, maxStrike) ==
    \/ minStrike # <<>> /\ FloatLess(strike, minStrike[1])
    \/ maxStrike # <<>> /\ FloatLess(maxStrike[1], strike)

RECURSIVE shape_rows(_, _, _, _)
\* the loop over chain.calls (or chain.puts): the contracts appended so far, or
\* the exception that ends it
shape_rows(rows, minStrike, maxStrike, acc) ==
    IF rows = <<>> THEN Ok(acc)
    ELSE LET row == Head(rows) IN
         IF "strike" \notin DOMAIN row THEN Raised
         ELSE LET strike == safe_float(row["strike"], F(0)) IN
              IF strike_filtered_out(strike, minStrike, maxStrike)
              THEN shape_rows(Tail(rows), minStrike, maxStrike, acc)
              ELSE LET c == option_contract(row, strike) IN
                   IF c.raised THEN Raised
                   ELSE shape_rows(Tail(rows), minStrike, maxStrike, Append(acc, c.v))

\* --------------------------------------------------------------- provider samples
ProviderRow(strike, bid, ask, last, vol, oi, iv, itm, sym) ==
    [c \in ContractColumns |->
        CASE c = "strike" -> strike
          [] c = "bid" -> bid
          [] c = "ask" -> ask
          [] c = "lastPrice" -> last
          [] c = "volume" -> vol
          [] c = "openInterest" -> oi
          [] c = "impliedVolatility" -> iv
          [] c = "inTheMoney" -> itm
          [] OTHER -> sym]

WithoutColumn(row, col) == [c \in DOMAIN row \ {col} |-> row[c]]

Row100 == ProviderRow(F(100000), F(5100), F(5300), F(5200), F(12000), I(40), F(325), B(TRUE), S("C100"))
Row110 == ProviderRow(F(110000), F(1100), F(1300), F(1200), I(7), I(15), F(290), B(FALSE), S("C110"))
Row120 == ProviderRow(F(120000), F(100), F(300), F(200), I(1), I(2), F(410), B(FALSE), S("C120"))
\* cells the provider leaves empty
RowNaN == ProviderRow(F(110000), NaN, NoneV, NaN, NaN, NaN, NaN, B(FALSE), S("C110"))
\* a volume int() cannot convert
RowInf == ProviderRow(F(120000), F(100), F(300), F(200), Inf, I(2), F(410), B(FALSE), S("C120"))

\* what the provider answers to option_chain(expiration) and to
\* history(period="1d")['Close'].iloc[-1]: a value, or an exception
ProviderAnswers ==
    { [chain |-> Ok([calls |-> <<Row100, Row110, Row120>>, puts |-> <<Row100, Row110, Row120>>]),
       hist |-> Ok(F(150000))],
      [chain |-> Ok([calls |-> <<RowNaN>>, puts |-> <<Row110, RowInf>>]), hist |-> Raised],
      [chain |-> Raised, hist |-> Ok(F(150000))] }

\* --------------------------------------------------------------- requests and responses
Handlers == {1, 2}

D1 == <<"d","1">>
D2 == <<"d","2">>

ReqTickers == { <<"a","b">>, <<"A","B">>, <<"A","B",":","X">> }
ProviderTickers == { Upper(t) : t \in ReqTickers }
\* the provider's answers to the attempts of get_ticker_with_retry
RetryOutcomes == { <<TRUE>>, <<FALSE, TRUE>>, <<FALSE, FALSE, TRUE>>, <<FALSE, FALSE, FALSE>> }

NoReq == [kind |-> "none", ticker |-> <<>>, expiration |-> <<>>,
          minStrike |-> <<>>, maxStrike |-> <<>>]

ChainRequest(t, e, lo, hi) ==
    [kind |-> "chain", ticker |-> t, expiration |-> e, minStrike |-> lo, maxStrike |-> hi]
ChainRequests ==
    { ChainRequest(<<"a","b">>, D1, <<>>, <<>>),
      ChainRequest(<<"A","B">>, D1, <<>>, <<>>),
      ChainRequest(<<"A","B">>, D1, <<F(105000)>>, <<F(115000)>>),
      ChainRequest(<<"A","B",":","X">>, D1, <<>>, <<>>),
      ChainRequest(<<"A","B">>, <<"X",":">> \o D1, <<>>, <<>>) }
ExpirationRequests ==
    { [kind |-> "expirations", ticker |-> t, expiration |-> <<>>,
       minStrike |-> <<>>, maxStrike |-> <<>>] : t \in { <<"a","b">> } }
Requests == ChainRequests \cup ExpirationRequests

\* status 0: no response yet.  hit, upstream, resolved, listed, optionsRaised,
\* fresh and first record how the response came about: served from the cache;
\* any upstream call made; whether get_ticker_with_retry was asked and answered;
\* whether the provider listed the expiration when the request was handled;
\* whether ticker.options raised; whether, at the lookup, a response stored for
\* the same inputs was still unexpired, and that response
NoResp == [status |-> 0, body |-> <<>>, detail |-> <<>>, hit |-> FALSE, upstream |-> FALSE,
           resolved |-> "notasked", listed |-> FALSE, optionsRaised |-> FALSE,
           fresh |-> FALSE, first |-> <<>>]

HTTPException(status_code, detail) ==
    [status |-> status_code, body |-> <<>>, detail |-> <<detail>>]

Success(body) ==
    [status |-> 200, body |-> <<body>>, detail |-> <<>>]

Range(seq) == { seq[i] : i \in 1..Len(seq) }

\* `if cached_data:` on what get_from_cache returned (None, or a dict)
Truthy(ret) == ret # <<>> /\ DOMAIN ret[1] # {}

KeyOf(r) ==
    IF r.kind = "expirations" THEN expirations_cache_key(r.ticker)
    ELSE chain_cache_key(r.ticker, r.expiration, r.minStrike, r.maxStrike)

\* --------------------------------------------------------------- get_expirations
\* the body of the try block; retry: the finished get_ticker_with_retry call;
\* opts: what ticker_obj.options gives
get_expirations_miss(r, retry, opts) ==
    LET ticker_upper == Upper(r.ticker) IN
    IF retry.pc = "raised"
    THEN HTTPException(404, [msg |-> "invalid ticker", input |-> retry.err[1].symbol])
    ELSE IF opts.raised
    THEN HTTPException(500, [msg |-> "error fetching expirations", input |-> ticker_upper])
    ELSE IF opts.v = <<>>
    THEN HTTPException(404, [msg |-> "no options data", input |-> ticker_upper])
    ELSE Success([ticker |-> ticker_upper, expirations |-> opts.v,
                  count |-> Len(opts.v), cached |-> FALSE])

\* --------------------------------------------------------------- get_options_chain
expiration_unchecked(expiration, opts) == TRUE

\* `expiration in ticker_obj.options`
expiration_is_valid(expiration, opts) == expiration \in Range(opts)

underlying_price(hist) == IF hist.raised THEN F(0) ELSE safe_float(hist.v, F(0))

\* the body of the try block; chain: what option_chain(expiration) gives;
\* hist: what history(period="1d") gives; t: the clock
get_options_chain_miss(r, retry, opts, chain, hist, t) ==
    LET ticker_upper == Upper(r.ticker) IN
    IF retry.pc = "raised"
    THEN HTTPException(404, [msg |-> "invalid ticker", input |-> retry.err[1].symbol])
    ELSE IF opts.raised
    THEN HTTPException(500, [msg |-> "error fetching chain", input |-> ticker_upper])
    ELSE IF ~expiration_is_valid(r.expiration, opts.v)
    THEN HTTPException(400, [msg |-> "invalid expiration", input |-> r.expiration])
    ELSE IF chain.raised
    THEN HTTPException(500, [msg |-> "error fetching chain", input |-> ticker_upper])
    ELSE LET calls_data == shape_rows(chain.v.calls, r.minStrike, r.maxStrike, <<>>)
             puts_data == shape_rows(chain.v.puts, r.minStrike, r.maxStrike, <<>>)
         IN  IF calls_data.raised \/ puts_data.raised
             THEN HTTPException(500, [msg |-> "error fetching chain", input |-> ticker_upper])
             ELSE Success([ticker |-> ticker_upper, expiration |-> r.expiration,
                           underlyingPrice |-> underlying_price(hist),
                           calls |-> calls_data.v, puts |-> puts_data.v,
                           cached |-> FALSE, fetchedAt |-> t])

store_always(c, key, out, ttl_seconds, t) ==
    set_cache(c, key, IF out.body = <<>> THEN [cached |-> FALSE] ELSE out.body[1], ttl_seconds, t)

\* set_cache is the last statement of the try block: it runs only when nothing raised
store_on_success(c, key, out, ttl_seconds, t) ==
    IF out.status = 200 THEN set_cache(c, key, out.body[1], ttl_seconds, t) ELSE c

\* --------------------------------------------------------------- the event loop
can_start_threaded(h) == TRUE

\* both handlers are `async def` without any await: the event loop starts a
\* handler only when no other handler is in the middle of its body
can_start(h) == running = 0

\* the inputs of a request as the claims compare them
Norm(r) == <<r.kind, Upper(r.ticker), r.expiration, r.minStrike, r.maxStrike>>

Init ==
    /\ cache = <<>>
    /\ now = 4 * 86400 + 15 * 3600 + 3599
    /\ ticks = 0
    /\ c_op = NoOp
    /\ pc = [h \in Handlers |-> "idle"]
    /\ req = [h \in Handlers |-> NoReq]
    /\ resp = [h \in Handlers |-> NoResp]
    /\ running = 0
    /\ options = [t \in ProviderTickers |-> IF t = <<"A","B">> THEN <<D1, D2>> ELSE <<D1>>]
    /\ nreq = 0
    /\ served = <<>>
    /\ rt = <<>> /\ sh = <<>>

\* a request reaches the server, is given the first free handler, and waits for
\* the event loop
Arrive(h, r) ==
    /\ pc[h] = "idle"
    /\ \A g \in Handlers : g < h => pc[g] # "idle"
    /\ nreq < MaxRequests
    /\ nreq' = nreq + 1
    /\ pc' = [pc EXCEPT ![h] = "pending"]
    /\ req' = [req EXCEPT ![h] = r]
    /\ resp' = [resp EXCEPT ![h] = NoResp]
    /\ UNCHANGED <<cache, now, ticks, c_op, running, options, served, rt, sh>>

\* the handler starts: cache key, get_from_cache, and the return on a hit
Lookup(h) ==
    /\ pc[h] = "pending"
    /\ can_start(h)
    /\ LET r == req[h]
           key == KeyOf(r)
           got == get_from_cache(cache, key, now)
           ghost == [NoResp EXCEPT
                        !.listed = r.expiration \in Range(options[Upper(r.ticker)]),
                        !.fresh = Norm(r) \in DOMAIN served /\ now <= served[Norm(r)].expires_at,
                        !.first = IF Norm(r) \in DOMAIN served THEN <<served[Norm(r)].body>> ELSE <<>>]
       IN  IF Truthy(got.ret)
           THEN /\ cache' = [got.cache EXCEPT ![key].data.cached = TRUE]
                /\ resp' = [resp EXCEPT ![h] =
                              [ghost EXCEPT !.status = 200, !.hit = TRUE,
                                            !.body = <<[got.ret[1] EXCEPT !.cached = TRUE]>>]]
                /\ pc' = [pc EXCEPT ![h] = "idle"]
                /\ UNCHANGED running
           ELSE /\ cache' = got.cache
                /\ resp' = [resp EXCEPT ![h] = ghost]
                /\ pc' = [pc EXCEPT ![h] = "fetching"]
                /\ running' = h
    /\ UNCHANGED <<now, ticks, c_op, req, options, nreq, served, rt, sh>>

\* the rest of the handler after a miss: the upstream calls, the shaping, the
\* store and the return (or the HTTPException)
Finish(h, out, ttl_seconds, retry, opts) ==
    LET r == req[h] IN
    /\ cache' = store_on_success(cache, KeyOf(r), out, ttl_seconds, now)
    /\ resp' = [resp EXCEPT ![h] =
                  [@ EXCEPT !.status = out.status, !.body = out.body, !.detail = out.detail,
                            !.upstream = retry.calls > 0,
                            !.listed = r.expiration \in Range(options[Upper(r.ticker)]),
                            !.resolved = IF retry.pc = "raised" THEN "failed" ELSE "ok",
                            !.optionsRaised = retry.pc # "raised" /\ opts.raised]]
    /\ served' = IF out.status = 200
                 THEN [n \in DOMAIN served \cup {Norm(r)} |->
                         IF n = Norm(r)
                         THEN [body |-> out.body[1], expires_at |-> cache'[KeyOf(r)].expires_at]
                         ELSE served[n]]
                 ELSE served
    /\ pc' = [pc EXCEPT ![h] = "idle"]
    /\ running' = IF running = h THEN 0 ELSE running
    /\ UNCHANGED <<now, ticks, c_op, req, options, nreq, rt, sh>>

FetchExpirations(h) ==
    /\ pc[h] = "fetching" /\ req[h].kind = "expirations"
    /\ \E outcomes \in RetryOutcomes, optionsRaise \in BOOLEAN :
         LET retry == get_ticker_with_retry(Upper(req[h].ticker), DefaultMaxRetries, outcomes)
             opts == IF optionsRaise THEN Raised ELSE Ok(options[Upper(req[h].ticker)])
         IN  Finish(h, get_expirations_miss(req[h], retry, opts), <<3600>>, retry, opts)

FetchChain(h) ==
    /\ pc[h] = "fetching" /\ req[h].kind = "chain"
    /\ \E outcomes \in RetryOutcomes, optionsRaise \in BOOLEAN, answer \in ProviderAnswers :
         LET retry == get_ticker_with_retry(Upper(req[h].ticker), DefaultMaxRetries, outcomes)
             opts == IF optionsRaise THEN Raised ELSE Ok(options[Upper(req[h].ticker)])
         IN  Finish(h, get_options_chain_miss(req[h], retry, opts, answer.chain, answer.hist, now),
                    <<>>, retry, opts)

\* the nearest expiration date passes: the provider drops it from every list
ExpirationPasses ==
    /\ \E t \in ProviderTickers : D1 \in Range(options[t])
    /\ options' = [t \in ProviderTickers |-> SelectSeq(options[t], LAMBDA e : e # D1)]
    /\ UNCHANGED <<cache, now, ticks, c_op, pc, req, resp, running, nreq, served, rt, sh>>

\* time passes, also while a handler blocks the event loop
Tick ==
    /\ Advance({3600})
    /\ UNCHANGED <<cache, c_op, pc, req, resp, running, options, nreq, served, rt, sh>>

Next ==
    \/ \E h \in Handlers, r \in Requests : Arrive(h, r)
    \/ \E h \in Handlers : Lookup(h)
    \/ \E h \in Handlers : FetchExpirations(h)
    \/ \E h \in Handlers : FetchChain(h)
    \/ ExpirationPasses
    \/ Tick

Spec == Init /\ [][Next]_vars

\* the event loop runs a handler that can run
FairSpec ==
    /\ Spec
    /\ WF_vars(\E h \in Handlers : Lookup(h))
    /\ WF_vars(\E h \in Handlers : FetchExpirations(h) \/ FetchChain(h))

\* --------------------------------------------------------------- claims on the handlers
\* handler h has answered the request in req[h]
Done(h) == pc[h] = "idle" /\ resp[h].status # 0

\* C1: when /api/options/chain is requested twice with the same inputs (ticker
\* compared case-insensitively) and the second request looks the cache up before
\* the entry stored by the first has expired, the first response has
\* cached=false, the second has cached=true, both carry identical calls and
\* puts, and the second request makes no call to the upstream provider.
C1_SecondRequestServedFromCache ==
    \A h \in Handlers :
        (Done(h) /\ req[h].kind = "chain" /\ resp[h].fresh) =>
            /\ resp[h].status = 200
            /\ resp[h].body[1].cached = TRUE
            /\ resp[h].first[1].cached = FALSE
            /\ resp[h].body[1].calls = resp[h].first[1].calls
            /\ resp[h].body[1].puts = resp[h].first[1].puts
            /\ ~resp[h].upstream

\* "AB" was fetched and stored, then "ab" was served the same rows from the cache
C1_Witness ==
    \E h1, h2 \in Handlers :
        /\ Done(h1) /\ req[h1] = ChainRequest(<<"A","B">>, D1, <<>>, <<>>)
        /\ resp[h1].status = 200 /\ ~resp[h1].hit
        /\ Done(h2) /\ req[h2] = ChainRequest(<<"a","b">>, D1, <<>>, <<>>)
        /\ resp[h2].fresh /\ resp[h2].hit
        /\ Len(resp[h2].body[1].calls) = 3

\* the case of C3: the ticker resolved (or was not asked for), the provider
\* reported its list (or was not asked), and the list lacks the expiration
C3_UnlistedExpiration(h) ==
    /\ Done(h) /\ req[h].kind = "chain"
    /\ resp[h].resolved # "failed" /\ ~resp[h].optionsRaised
    /\ ~resp[h].listed

\* C3 (as stated): a chain request naming an expiration that is not in the list
\* the provider reports for the ticker ends with 400, never with 404, 500 or a
\* successful chain response.  (Stated for the responses that carry the
\* request's own ticker and expiration, so that a hit on a colliding key, the
\* case of C6, is not what refutes it.)
C3_UnlistedExpirationIs400 ==
    \A h \in Handlers :
        (/\ C3_UnlistedExpiration(h)
         /\ resp[h].body # <<>> => /\ resp[h].body[1].ticker = Upper(req[h].ticker)
                                   /\ resp[h].body[1].expiration = req[h].expiration)
            => resp[h].status = 400

\* C3 (amended): such a request ends with 400 whenever it misses the cache.
C3_UnlistedExpirationIs400OnMiss ==
    \A h \in Handlers :
        (C3_UnlistedExpiration(h) /\ ~resp[h].hit) =>
            (resp[h].status = 400 /\ resp[h].body = <<>>)

\* a chain request for an unlisted expiration was refused with 400
C3_Witness ==
    \E h \in Handlers :
        /\ C3_UnlistedExpiration(h) /\ ~resp[h].hit /\ resp[h].upstream
        /\ resp[h].status = 400

\* C6: requests whose (kind, uppercased ticker, expiration, minStrike,
\* maxStrike) differ get different cache keys, so a cache hit never serves a
\* payload stored for other inputs.
C6_FingerprintDeterminesInputs ==
    /\ \A h1, h2 \in Handlers :
          (req[h1] # NoReq /\ req[h2] # NoReq /\ Norm(req[h1]) # Norm(req[h2])) =>
              KeyOf(req[h1]) # KeyOf(req[h2])
    /\ \A h \in Handlers :
          (Done(h) /\ resp[h].hit) =>
              /\ resp[h].body[1].ticker = Upper(req[h].ticker)
              /\ req[h].kind = "chain" => resp[h].body[1].expiration = req[h].expiration

\* the second half of C6 alone: what a hit serves was stored for the same inputs
C6_HitServesOwnInputs ==
    \A h \in Handlers :
        (Done(h) /\ resp[h].hit /\ req[h].kind = "chain") =>
            /\ resp[h].body[1].ticker = Upper(req[h].ticker)
            /\ resp[h].body[1].expiration = req[h].expiration

\* a payload a handler may store: a whole expirations or chain response
C8_WholeBody(d) ==
    \/ DOMAIN d = {"ticker", "expirations", "count", "cached"} /\ d.count = Len(d.expirations)
                                                                /\ d.count > 0
    \/ /\ DOMAIN d = {"ticker", "expiration", "underlyingPrice", "calls", "puts",
                      "cached", "fetchedAt"}
       /\ \A c \in Range(d.calls) \cup Range(d.puts) :
             DOMAIN c = {"strike", "bid", "ask", "last", "volume", "openInterest",
                         "impliedVolatility", "inTheMoney", "contractSymbol"}

\* C8: a chain or expirations request that fails at any step ends with exactly
\* one of 400, 404, 500 and no calls or puts, and adds no entry to the cache;
\* only whole successful responses are ever stored.
C8_FailedRequestStoresNothing ==
    [][/\ \A h \in Handlers :
            (resp'[h] # resp[h] /\ resp'[h].status \notin {0, 200}) =>
                /\ resp'[h].status \in {400, 404, 500}
                /\ resp'[h].body = <<>>
                /\ cache' = cache
       /\ \A k \in DOMAIN cache' : C8_WholeBody(cache'[k].data)
    ]_vars

\* a chain request failed with 500 after its expiration was accepted (the chain
\* fetch raised, or a row could not be shaped) and its key is not in the cache
C8_Witness ==
    \E h \in Handlers :
        /\ Done(h) /\ req[h].kind = "chain" /\ resp[h].status = 500
        /\ resp[h].resolved = "ok" /\ ~resp[h].optionsRaised /\ resp[h].listed
        /\ KeyOf(req[h]) \notin DOMAIN cache

\* two handlers for one fingerprint are both past the cache lookup and before
\* their store
C10_TwoInFlight ==
    \E h1, h2 \in Handlers :
        /\ h1 # h2 /\ pc[h1] = "fetching" /\ pc[h2] = "fetching"
        /\ KeyOf(req[h1]) = KeyOf(req[h2])

\* two requests for one fingerprint wait for their cache lookup while the key is
\* absent from the cache
C10_BothArrivedUncached ==
    \E h1, h2 \in Handlers :
        /\ h1 # h2 /\ pc[h1] = "pending" /\ pc[h2] = "pending"
        /\ KeyOf(req[h1]) = KeyOf(req[h2])
        /\ KeyOf(req[h1]) \notin DOMAIN cache

HeadRows == 10

\* float(value): TypeError on None, ValueError on a str that is no number
PyFloat(x) ==
    IF x.t \in {"none", "str"} THEN Raised ELSE Ok(ToFloat(x))

\* int(value) if not np.isnan(value) else 0
int_unless_nan(x) ==
    IF IsNanRaises(x) THEN Raised
    ELSE IF IsNan(x) THEN Ok(I(0))
    ELSE IF x.t = "inf" THEN Raised
    ELSE Ok(ToInt(x))

TickerColumns == {"strike", "bid", "ask", "volume", "openInterest", "impliedVolatility"}

\* the dict appended for one row
ticker_service_row(row) ==
    IF ~(TickerColumns \subseteq DOMAIN row) THEN Raised
    ELSE IF \E c \in {"strike", "bid", "ask", "impliedVolatility"} : PyFloat(row[c]).raised
    THEN Raised
    ELSE IF int_unless_nan(row["volume"]).raised \/ int_unless_nan(row["openInterest"]).raised
    THEN Raised
    ELSE Ok([strike |-> PyFloat(row["strike"]).v,
             bid |-> PyFloat(row["bid"]).v,
             ask |-> PyFloat(row["ask"]).v,
             volume |-> int_unless_nan(row["volume"]).v,
             openInterest |-> int_unless_nan(row["openInterest"]).v,
             impliedVolatility |-> Times100(PyFloat(row["impliedVolatility"]).v)])

RECURSIVE ticker_service_rows(_, _)
ticker_service_rows(rows, acc) ==
    IF rows = <<>> THEN Ok(acc)
    ELSE LET d == ticker_service_row(Head(rows)) IN
         IF d.raised THEN Raised
         ELSE ticker_service_rows(Tail(rows), Append(acc, d.v))

\* DataFrame.head(n)
HeadOf(rows, n) == SubSeq(rows, 1, IF Len(rows) < n THEN Len(rows) ELSE n)

\* the handler; opts: what ticker.options gives; chain: what option_chain gives
ticker_service_get_options_chain(symbol, opts, chain) ==
    IF opts.raised THEN [status |-> 500, body |-> <<>>]
    ELSE IF opts.v = <<>> THEN [status |-> 404, body |-> <<>>]
    ELSE IF chain.raised THEN [status |-> 500, body |-> <<>>]
    ELSE LET calls_data == ticker_service_rows(HeadOf(chain.v.calls, HeadRows), <<>>)
             puts_data == ticker_service_rows(HeadOf(chain.v.puts, HeadRows), <<>>)
         IN  IF calls_data.raised \/ puts_data.raised
             THEN [status |-> 500, body |-> <<>>]
             ELSE [status |-> 200,
                   body |-> <<[symbol |-> Upper(symbol), expiration |-> opts.v[1],
                               calls |-> calls_data.v, puts |-> puts_data.v]>>]

\* --------------------------------------------------------------- ShapeSpec
\* one provider answer shaped by either service
RowNaNStrike == ProviderRow(NaN, F(100), F(300), F(200), I(1), I(2), F(410), B(FALSE), S("C0"))
RowNoneBid == ProviderRow(F(110000), NoneV, F(1300), F(1200), NoneV, I(15), NaN, B(FALSE), NoneV)

ShapeRows == { Row100, Row110, RowNaN, RowInf, RowNaNStrike, RowNoneBid,
               WithoutColumn(Row120, "lastPrice") }
ShapeChains ==
    {Raised} \cup { Ok([calls |-> <<a, b>>, puts |-> <<c>>]) : a, b, c \in ShapeRows }
ShapeBounds == { << <<>>, <<>> >>, << <<F(105000)>>, <<F(115000)>> >> }
ShapeHist == { Ok(F(150000)), Ok(NaN), Ok(NoneV), Raised }

ShapeInit ==
    /\ sh \in { [pc |-> "start", svc |-> "none", chain |-> c, hist |-> p,
                minStrike |-> b[1], maxStrike |-> b[2],
                out |-> [status |-> 0, body |-> <<>>]] :
                  c \in ShapeChains, p \in ShapeHist, b \in ShapeBounds }
    /\ cache = <<>> /\ now = 0 /\ ticks = 0 /\ c_op = NoOp
    /\ pc = <<>> /\ req = <<>> /\ resp = <<>> /\ running = 0
    /\ options = <<>> /\ nreq = 0 /\ served = <<>> /\ rt = <<>>

ShapeFrame == UNCHANGED <<cache, now, ticks, c_op, pc, req, resp, running, options, nreq, served, rt>>

\* GET /api/options/chain of the options service, on a cache miss
ShapeOptionsService ==
    /\ sh.pc = "start"
    /\ LET r == ChainRequest(<<"a","b">>, D1, sh.minStrike, sh.maxStrike)
           retry == get_ticker_with_retry(Upper(r.ticker), DefaultMaxRetries, <<TRUE>>)
           out == get_options_chain_miss(r, retry, Ok(<<D1>>), sh.chain, sh.hist, now)
       IN  sh' = [sh EXCEPT !.pc = "done", !.svc = "options",
                            !.out = [status |-> out.status, body |-> out.body]]
    /\ ShapeFrame

\* GET /api/options-chain/<symbol> of the ticker service
ShapeTickerService ==
    /\ sh.pc = "start"
    /\ sh' = [sh EXCEPT !.pc = "done", !.svc = "ticker",
                        !.out = ticker_service_get_options_chain(<<"a","b">>, Ok(<<D1>>), sh.chain)]
    /\ ShapeFrame

ShapeNext == ShapeOptionsService \/ ShapeTickerService

ShapeSpec == ShapeInit /\ [][ShapeNext]_vars

\* the numeric fields of a shaped contract of either service
C7_ContractNumbers(c) ==
    { c[f] : f \in DOMAIN c \cap {"strike", "bid", "ask", "last", "volume",
                                   "openInterest", "impliedVolatility"} }

C7_BodyHasNoNaN(b) ==
    /\ \A c \in Range(b.calls) \cup Range(b.puts) : \A x \in C7_ContractNumbers(c) : x.t # "nan"
    /\ "underlyingPrice" \in DOMAIN b => b.underlyingPrice.t # "nan"

\* C7: no numeric field of any successful response of either service is NaN: a
\* missing or NaN provider value is replaced by the field's default before it
\* reaches the client.
C7_NoNaNReachesClient ==
    (sh.pc = "done" /\ sh.out.status = 200) => C7_BodyHasNoNaN(sh.out.body[1])

\* the same for the options service alone, where safe_float and safe_int guard
\* every numeric field
C7_OptionsServiceNoNaN ==
    (sh.pc = "done" /\ sh.svc = "options" /\ sh.out.status = 200) =>
        C7_BodyHasNoNaN(sh.out.body[1])

====
